---- MODULE Spec2Model ----
(***************************************************************************)
(* Model of rpg/player.py: the Player class of the RPG plugin, its XP and  *)
(* leveling rules and its skill upgrade / downgrade rules.                 *)
(*                                                                         *)
(* One action per method of Player.  Every call is synchronous, so an      *)
(* action is a whole call.  The variables `call', `result', `events',      *)
(* `executed' and `pre' record what the last call was, how it ended, what  *)
(* it sent to the listener managers and the state it started from, so that *)
(* statements about "after a call" are state predicates.  `pair' holds the *)
(* state before an upgrade_skill call when the last call is the            *)
(* downgrade_skill of the same skill that directly followed it.            *)
(***************************************************************************)
EXTENDS Integers, Sequences, FiniteSets, TLC

VARIABLES level, xp, credits, skill_level,
          call, result, events, executed, pre, pair

vars == <<level, xp, credits, skill_level,
          call, result, events, executed, pre, pair>>

(* ------------------------------ bounds --------------------------------- *)

\* give_xp is only called while the level it ends at stays within MaxLevel
MaxLevel == 3

\* largest level / credits the constructor is given in Init
MaxInitLevel == 1
MaxInitCredits == 1

(* ------------------------- the skill objects --------------------------- *)

\* every Skill object that exists; the player's list holds only some
AllSkills == {"s1", "s2", "s3"}

\* Player.skills, the list handed to the constructor
skills == <<"s1", "s2">>

InSkills(skill) == \E i \in 1..Len(skills) : skills[i] = skill

\* Skill.class_id
class_id(skill) == CASE skill = "s1" -> "health"
                     [] skill = "s2" -> "regen"
                     [] OTHER        -> "speed"

ClassIds == {"health", "regen", "speed", "missing"}

\* Skill.max_level: <<n>> when set, <<>> when None
max_level(skill) == IF skill = "s1" THEN <<2>> ELSE <<>>

\* Skill.upgrade_cost, read at the skill's current level
upgrade_cost(skill, lvl) == CASE skill = "s1" -> 3
                              [] skill = "s2" -> 2 * (lvl + 1)
                              [] OTHER        -> 0

\* Skill.downgrade_refund, read at the skill's current level
downgrade_refund(skill, lvl) == CASE skill = "s1" -> 2
                                  [] skill = "s2" -> lvl
                                  [] OTHER        -> 1

(* ------------------------------ leveling ------------------------------- *)

\* required_xp with the level's share left out
required_xp_Flat(lvl) == 300

\* Player.required_xp
required_xp(lvl) == 300 + 15 * lvl

\* the amounts give_xp is called with
Amounts == {-1, 0, 150, 300, 301, 700}

\* the loop as an `if': at most one level per call
LevelUpLoop_Once(x, l, c) ==
    IF x > required_xp(l)
    THEN [xp |-> x - required_xp(l), level |-> l + 1, credits |-> c + 5]
    ELSE [xp |-> x, level |-> l, credits |-> c]

\* the loop with the credit bonus dedented out of its body
RECURSIVE LevelUpLoop_Dedent(_, _, _)
LevelUpLoop_Dedent(x, l, c) ==
    IF x > required_xp(l)
    THEN LevelUpLoop_Dedent(x - required_xp(l), l + 1, c)
    ELSE [xp |-> x, level |-> l, credits |-> c + 5]

\* the while loop of give_xp, on the values of _xp, _level and _credits
RECURSIVE LevelUpLoop(_, _, _)
LevelUpLoop(x, l, c) ==
    IF x > required_xp(l)
    THEN LevelUpLoop(x - required_xp(l), l + 1, c + 5)
    ELSE [xp |-> x, level |-> l, credits |-> c]

\* the notification guarded by <= instead of <
LevelUpEvents_Always(initial_level, initial_credits, l, c) ==
    IF initial_level <= l
    THEN << [name |-> "PlayerLevelUp",
             levels |-> initial_level - l,
             credits |-> initial_credits - c] >>
    ELSE << >>

\* the OnPlayerLevelUp notification of give_xp
LevelUpEvents(initial_level, initial_credits, l, c) ==
    IF initial_level < l
    THEN << [name |-> "PlayerLevelUp",
             levels |-> initial_level - l,
             credits |-> initial_credits - c] >>
    ELSE << >>

(* ------------------------------ snapshots ------------------------------ *)

Snapshot == [level |-> level, xp |-> xp, credits |-> credits,
             skill_level |-> skill_level]

NoCall == [op |-> "init", amount |-> 0, skill |-> "none"]

\* the bookkeeping every call shares: what was called, from which state
Record(op, amount, skill) ==
    /\ call' = [op |-> op, amount |-> amount, skill |-> skill]
    /\ pre' = Snapshot
    /\ pair' = IF op = "downgrade_skill" /\ call.op = "upgrade_skill"
                   /\ call.skill = skill
                THEN << pre >> ELSE << >>

(* -------------------------------- Init --------------------------------- *)

Init ==
    /\ level \in 0..MaxInitLevel
    /\ xp \in {0, 100}
    /\ credits \in 0..MaxInitCredits
    /\ skill_level = [s \in AllSkills |-> IF s = "s3" THEN 1 ELSE 0]
    /\ call = NoCall
    /\ result = "None"
    /\ events = << >>
    /\ executed = << >>
    /\ pre = Snapshot
    /\ pair = << >>

(* ------------------------------- actions ------------------------------- *)

\* give_xp adding the amount before it checks the sign
give_xp_LateCheck(amount) ==
    /\ Record("give_xp", amount, "none")
    /\ executed' = << >>
    /\ IF amount < 0
       THEN /\ result' = "ValueError"
            /\ events' = << >>
            /\ xp' = xp + amount
            /\ UNCHANGED <<level, credits, skill_level>>
       ELSE LET end == LevelUpLoop(xp + amount, level, credits) IN
            /\ end.level <= MaxLevel
            /\ xp' = end.xp
            /\ level' = end.level
            /\ credits' = end.credits
            /\ events' = LevelUpEvents(level, credits, end.level, end.credits)
            /\ result' = "None"
            /\ UNCHANGED skill_level

\* Player.give_xp
give_xp(amount) ==
    /\ Record("give_xp", amount, "none")
    /\ executed' = << >>
    /\ IF amount < 0
       THEN /\ result' = "ValueError"
            /\ events' = << >>
            /\ UNCHANGED <<level, xp, credits, skill_level>>
       ELSE LET end == LevelUpLoop(xp + amount, level, credits) IN
            /\ end.level <= MaxLevel
            /\ xp' = end.xp
            /\ level' = end.level
            /\ credits' = end.credits
            /\ events' = LevelUpEvents(level, credits, end.level, end.credits)
            /\ result' = "None"
            /\ UNCHANGED skill_level

\* Player.reset_rpg_progress
reset_rpg_progress ==
    /\ Record("reset_rpg_progress", 0, "none")
    /\ level' = 0
    /\ xp' = 0
    /\ credits' = 0
    /\ skill_level' = [s \in AllSkills |->
                          IF InSkills(s) THEN 0 ELSE skill_level[s]]
    /\ events' = << >>
    /\ executed' = << >>
    /\ result' = "None"

\* can_upgrade_skill without the credits test
can_upgrade_skill_NoCreditCheck(skill) ==
    /\ InSkills(skill)
    /\ (max_level(skill) = << >> \/ max_level(skill)[1] > skill_level[skill])

\* can_upgrade_skill without the membership test
can_upgrade_skill_NoMembership(skill) ==
    /\ credits >= upgrade_cost(skill, skill_level[skill])
    /\ (max_level(skill) = << >> \/ max_level(skill)[1] > skill_level[skill])

\* Player.can_upgrade_skill, as a predicate of the current state
can_upgrade_skill(skill) ==
    /\ InSkills(skill)
    /\ credits >= upgrade_cost(skill, skill_level[skill])
    /\ (max_level(skill) = << >> \/ max_level(skill)[1] > skill_level[skill])

\* can_downgrade_skill without the level test
can_downgrade_skill_NoLevelCheck(skill) == InSkills(skill)

\* Player.can_downgrade_skill, as a predicate of the current state
can_downgrade_skill(skill) ==
    /\ InSkills(skill)
    /\ skill_level[skill] > 0

\* a call of Player.can_upgrade_skill
call_can_upgrade_skill(skill) ==
    /\ Record("can_upgrade_skill", 0, skill)
    /\ result' = IF can_upgrade_skill(skill) THEN "True" ELSE "False"
    /\ events' = << >>
    /\ executed' = << >>
    /\ UNCHANGED <<level, xp, credits, skill_level>>

\* a call of Player.can_downgrade_skill
call_can_downgrade_skill(skill) ==
    /\ Record("can_downgrade_skill", 0, skill)
    /\ result' = IF can_downgrade_skill(skill) THEN "True" ELSE "False"
    /\ events' = << >>
    /\ executed' = << >>
    /\ UNCHANGED <<level, xp, credits, skill_level>>

\* Player.upgrade_skill
upgrade_skill(skill) ==
    /\ Record("upgrade_skill", 0, skill)
    /\ result' = "None"
    /\ executed' = << >>
    /\ UNCHANGED <<level, xp>>
    /\ IF ~can_upgrade_skill(skill)
       THEN /\ events' = << >>
            /\ UNCHANGED <<credits, skill_level>>
       ELSE /\ credits' = credits - upgrade_cost(skill, skill_level[skill])
            /\ skill_level' = [skill_level EXCEPT ![skill] = @ + 1]
            /\ events' = << [name |-> "PlayerUpgradeSkill", skill |-> skill] >>

\* downgrade_skill charging the refund instead of paying it
downgrade_skill_Charges(skill) ==
    /\ Record("downgrade_skill", 0, skill)
    /\ result' = "None"
    /\ executed' = << >>
    /\ UNCHANGED <<level, xp>>
    /\ IF ~can_downgrade_skill(skill)
       THEN /\ events' = << >>
            /\ UNCHANGED <<credits, skill_level>>
       ELSE /\ credits' = credits - downgrade_refund(skill, skill_level[skill])
            /\ skill_level' = [skill_level EXCEPT ![skill] = @ - 1]
            /\ events' = << [name |-> "PlayerDowngradeSkill", skill |-> skill] >>

\* Player.downgrade_skill
downgrade_skill(skill) ==
    /\ Record("downgrade_skill", 0, skill)
    /\ result' = "None"
    /\ executed' = << >>
    /\ UNCHANGED <<level, xp>>
    /\ IF ~can_downgrade_skill(skill)
       THEN /\ events' = << >>
            /\ UNCHANGED <<credits, skill_level>>
       ELSE /\ credits' = credits + downgrade_refund(skill, skill_level[skill])
            /\ skill_level' = [skill_level EXCEPT ![skill] = @ - 1]
            /\ events' = << [name |-> "PlayerDowngradeSkill", skill |-> skill] >>

\* the skills whose callbacks execute_skill_callbacks runs, in list order
Leveled == SelectSeq(skills, LAMBDA s : skill_level[s] > 0)

\* Player.execute_skill_callbacks
execute_skill_callbacks ==
    /\ Record("execute_skill_callbacks", 0, "none")
    /\ executed' = Leveled
    /\ result' = "None"
    /\ events' = << >>
    /\ UNCHANGED <<level, xp, credits, skill_level>>

\* the linear scan of find_skill
FirstMatch(skill_id) ==
    LET hits == SelectSeq(skills, LAMBDA s : class_id(s) = skill_id)
    IN  IF hits = << >> THEN "None" ELSE hits[1]

\* Player.find_skill
find_skill(skill_id) ==
    /\ Record("find_skill", 0, "none")
    /\ result' = FirstMatch(skill_id)
    /\ events' = << >>
    /\ executed' = << >>
    /\ UNCHANGED <<level, xp, credits, skill_level>>

Next ==
    \/ \E amount \in Amounts : give_xp(amount)
    \/ reset_rpg_progress
    \/ \E skill \in AllSkills : call_can_upgrade_skill(skill)
    \/ \E skill \in AllSkills : call_can_downgrade_skill(skill)
    \/ \E skill \in AllSkills : upgrade_skill(skill)
    \/ \E skill \in AllSkills : downgrade_skill(skill)
    \/ execute_skill_callbacks
    \/ \E skill_id \in ClassIds : find_skill(skill_id)

Spec == Init /\ [][Next]_vars

(* =============================== claims ================================ *)

\* the last call was give_xp with a non-negative amount
GaveXp == call.op = "give_xp" /\ call.amount >= 0

\* the state left alone by the last call
SameState ==
    /\ level = pre.level
    /\ xp = pre.xp
    /\ credits = pre.credits
    /\ skill_level = pre.skill_level

\* the sum of required_xp over the levels from..to-1
RECURSIVE SumRequired(_, _)
SumRequired(from, to) ==
    IF from >= to THEN 0 ELSE (300 + 15 * from) + SumRequired(from + 1, to)

\* C1 as stated: after give_xp(amount) with amount >= 0 returns, xp is
\* strictly below required_xp of the final level.
C1_Original == GaveXp => xp < 300 + 15 * level

\* C1 amended: after give_xp(amount) with amount >= 0 returns, xp is at most
\* required_xp of the final level; xp is never left above the threshold.
C1_XpAtMostThreshold == GaveXp => xp <= 300 + 15 * level

\* a give_xp call that added XP and settled exactly on the threshold
C1_Witness == GaveXp /\ call.amount > 0 /\ xp = 300 + 15 * level

\* C2: give_xp(amount) with amount < 0 ends in ValueError, leaves level, xp
\* and credits as they were and emits no PlayerLevelUp event.
C2_NegativeRejected ==
    (call.op = "give_xp" /\ call.amount < 0) =>
        /\ result = "ValueError"
        /\ SameState
        /\ events = << >>

C2_Witness ==
    /\ call.op = "give_xp" /\ call.amount < 0
    /\ result = "ValueError"
    /\ pre.xp > 0 /\ pre.level > 0 /\ pre.credits > 0

\* C3: credits >= 0 in every reachable state; no upgrade_skill or
\* downgrade_skill call makes credits negative.
C3_CreditsNonNegative == credits >= 0

\* an upgrade that spent the last credits
C3_Witness ==
    /\ call.op = "upgrade_skill"
    /\ skill_level[call.skill] = pre.skill_level[call.skill] + 1
    /\ pre.credits > 0
    /\ credits = 0

\* C4: every skill of the player has level >= 0 and, when max_level is set,
\* level <= max_level.
C4_SkillLevelBounds ==
    \A i \in 1..Len(skills) :
        /\ skill_level[skills[i]] >= 0
        /\ (max_level(skills[i]) # << >> =>
               skill_level[skills[i]] <= max_level(skills[i])[1])

\* an affordable upgrade of a skill already at its max_level
C4_Witness ==
    /\ call.op = "upgrade_skill" /\ call.skill = "s1"
    /\ pre.skill_level["s1"] = max_level("s1")[1]
    /\ pre.credits >= upgrade_cost("s1", pre.skill_level["s1"])

\* the precondition of upgrade_skill is unmet in the state st
UpgradeUnmetIn(st, skill) ==
    \/ skill \notin {skills[i] : i \in 1..Len(skills)}
    \/ st.credits < upgrade_cost(skill, st.skill_level[skill])
    \/ (max_level(skill) # << >> /\
          st.skill_level[skill] >= max_level(skill)[1])

\* the precondition of upgrade_skill is unmet in the state before the call
UpgradeUnmet(skill) == UpgradeUnmetIn(pre, skill)

\* the precondition of downgrade_skill is unmet in the state before the call
DowngradeUnmet(skill) ==
    \/ skill \notin {skills[i] : i \in 1..Len(skills)}
    \/ pre.skill_level[skill] = 0

\* C5: upgrade_skill / downgrade_skill with an unmet precondition changes
\* nothing, emits no event and raises no error.
C5_UnmetIsNoOp ==
    /\ (call.op = "upgrade_skill" /\ UpgradeUnmet(call.skill)) =>
           SameState /\ events = << >> /\ result = "None"
    /\ (call.op = "downgrade_skill" /\ DowngradeUnmet(call.skill)) =>
           SameState /\ events = << >> /\ result = "None"

\* an upgrade refused for lack of credits alone
C5_Witness ==
    /\ call.op = "upgrade_skill" /\ call.skill = "s2"
    /\ pre.credits > 0
    /\ pre.credits < upgrade_cost("s2", pre.skill_level["s2"])

\* C6: when give_xp raises the level, the PlayerLevelUp event carries
\* levels = final level - initial level and credits = final credits -
\* initial credits = 5 * levels.
C6_EventCarriesGains ==
    (GaveXp /\ level > pre.level) =>
        /\ Len(events) >= 1
        /\ events[1].levels = level - pre.level
        /\ events[1].credits = credits - pre.credits
        /\ events[1].credits = 5 * events[1].levels

\* C7: a give_xp call emits exactly one PlayerLevelUp event when it raised
\* the level (give_xp(700) at level 0, xp 0 gains 2 levels and 10 credits
\* with one event) and none when no threshold was crossed.
C7_OneEventPerCall ==
    GaveXp =>
        /\ IF level > pre.level
           THEN Len(events) = 1 /\ events[1].name = "PlayerLevelUp"
           ELSE events = << >>
        /\ (pre.level = 0 /\ pre.xp = 0 /\ call.amount = 700) =>
               /\ level = 2
               /\ credits = pre.credits + 10
               /\ Len(events) = 1

C7_Witness ==
    /\ GaveXp /\ call.amount = 700
    /\ pre.level = 0 /\ pre.xp = 0 /\ pre.credits = 0
    /\ level = 2 /\ credits = 10

\* C8 as stated: for any skill and any player state, upgrade_skill then
\* downgrade_skill restores the skill's level, and credits end lower by
\* upgrade_cost - downgrade_refund.
C8_Original ==
    pair # << >> =>
        /\ skill_level[call.skill] = pair[1].skill_level[call.skill]
        /\ pair[1].credits - credits =
              upgrade_cost(call.skill, pair[1].skill_level[call.skill])
              - downgrade_refund(call.skill, pre.skill_level[call.skill])

\* C8 amended: when can_upgrade_skill(skill) holds, upgrade_skill(skill)
\* then downgrade_skill(skill) restores the skill's level, and credits end
\* lower by the upgrade_cost paid minus the downgrade_refund received.
C8_UpgradeDowngradeRoundTrip ==
    (pair # << >> /\ ~UpgradeUnmetIn(pair[1], call.skill)) =>
        LET s == call.skill
            before == pair[1]
        IN  /\ skill_level[s] = before.skill_level[s]
            /\ before.credits - credits =
                  upgrade_cost(s, before.skill_level[s])
                  - downgrade_refund(s, before.skill_level[s] + 1)
            /\ \A o \in AllSkills \ {s} :
                  skill_level[o] = before.skill_level[o]

\* a round trip on a skill whose cost and refund differ
C8_Witness ==
    /\ pair # << >> /\ call.skill = "s1"
    /\ ~UpgradeUnmetIn(pair[1], "s1")
    /\ credits = pair[1].credits - 1

\* the calls the claim lists as leaving credits alone
C9_Readers == {"can_upgrade_skill", "can_downgrade_skill",
               "execute_skill_callbacks", "find_skill"}

\* C9 as stated: reset_rpg_progress, the queries and a give_xp call that
\* gains no level leave credits unchanged.
C9_Original ==
    \/ call.op \in {"upgrade_skill", "downgrade_skill"}
    \/ (call.op = "give_xp" /\ level > pre.level)
    \/ credits = pre.credits

\* C9 amended: credits changes only in upgrade_skill, downgrade_skill, the
\* level-up bonus of give_xp and reset_rpg_progress, which sets it to 0;
\* the queries and a give_xp call that gains no level leave it unchanged.
C9_CreditsFrame ==
    /\ call.op \in C9_Readers => credits = pre.credits
    /\ (call.op = "give_xp" /\ level = pre.level) => credits = pre.credits
    /\ call.op = "reset_rpg_progress" => credits = 0

\* XP was added without a level gain, to a player holding credits
C9_Witness ==
    /\ GaveXp /\ call.amount > 0 /\ level = pre.level
    /\ xp > pre.xp /\ pre.credits > 0

\* C10: give_xp adds amount to xp and levels up exactly while xp strictly
\* exceeds required_xp of the current level, each time paying that level's
\* required_xp and gaining 1 level and 5 credits.
C10_GiveXpLoop ==
    GaveXp =>
        LET total == pre.xp + call.amount IN
        /\ level >= pre.level
        /\ total = xp + SumRequired(pre.level, level)
        /\ credits = pre.credits + 5 * (level - pre.level)
        /\ \A l \in pre.level..(level - 1) :
              total - SumRequired(pre.level, l) > 300 + 15 * l
        /\ ~(xp > 300 + 15 * level)
        /\ (pre.level = 0 /\ pre.xp = 0 /\ call.amount = 300) =>
              level = 0 /\ xp = 300
        /\ (pre.level = 0 /\ pre.xp = 0 /\ call.amount = 301) =>
              level = 1 /\ xp = 1 /\ credits = pre.credits + 5

C10_Witness ==
    /\ GaveXp /\ level >= pre.level + 2
    /\ xp > 0
====
